---- MODULE Spec2Model ----
(***************************************************************************)
(* A model of upload_sed_summary.py: the SEDSummaryUploader class          *)
(* (discovery of result.json files under base_dir, the upload coroutine,   *)
(* the batch and single-file orchestration) and the command line's main(). *)
(*                                                                         *)
(* Strings that the program parses (directory names, --date) are modelled  *)
(* as sequences of one-character strings so that datetime.strptime can be  *)
(* computed the way CPython computes it.  An Optional[str] is a record     *)
(* [some, val]; None is [some |-> FALSE].                                  *)
(***************************************************************************)
EXTENDS Integers, Sequences, FiniteSets, TLC

\* ---------------------------------------------------------------- bounds
\* At most this many date-level entries exist in a directory tree.
MaxEntries == 3
\* At most this many entries exist in the tree of a run that is given arguments.
MaxEntriesArgs == 1

\* ------------------------------------------------------- program constants
HTTP_OK == 200

\* ------------------------------------------------------------ text values
Str_2024_01_01 == <<"2","0","2","4","-","0","1","-","0","1">>
Str_2024_02_29 == <<"2","0","2","4","-","0","2","-","2","9">>
Str_2023_02_29 == <<"2","0","2","3","-","0","2","-","2","9">>
Str_2024_1_5   == <<"2","0","2","4","-","1","-","5">>
Str_not_a_date == <<"n","o","t","-","a","-","d","a","t","e">>
Str_empty      == <<>>
Str_devA       == <<"d","e","v","A">>
Str_devB       == <<"d","e","v","B">>

None == [some |-> FALSE, val |-> <<>>]
Some(v) == [some |-> TRUE, val |-> v]

\* Python truthiness of an Optional[str]: None and "" are falsy.
Truthy(o) == o.some /\ o.val # <<>>

\* ------------------------------------------------- datetime.strptime model
Digits == {"0","1","2","3","4","5","6","7","8","9"}
NonZeroDigits == Digits \ {"0"}

DigitVal(c) ==
    CASE c = "0" -> 0 [] c = "1" -> 1 [] c = "2" -> 2 [] c = "3" -> 3
      [] c = "4" -> 4 [] c = "5" -> 5 [] c = "6" -> 6 [] c = "7" -> 7
      [] c = "8" -> 8 [] c = "9" -> 9

\* The character at position i, or "" past either end.
At(s, i) == IF i \in 1..Len(s) THEN s[i] ELSE ""

RECURSIVE NumVal(_, _, _)
\* int() of the n digits of s starting at position i.
NumVal(s, i, n) ==
    IF n = 0 THEN 0
    ELSE NumVal(s, i, n - 1) * 10 + DigitVal(s[i + n - 1])

\* %Y is \d\d\d\d: the number of characters it consumes at i (0: no match).
MatchYear(s, i) ==
    IF \A k \in 0..3 : At(s, i + k) \in Digits THEN 4 ELSE 0

\* %m is 1[0-2]|0[1-9]|[1-9], alternatives tried in this order; the regex
\* engine backtracks to a later alternative when the "-" after it fails.
MatchMonth(s, i) ==
    LET follows(n) == At(s, i + n) = "-"
    IN  IF At(s, i) = "1" /\ At(s, i + 1) \in {"0","1","2"} /\ follows(2) THEN 2
        ELSE IF At(s, i) = "0" /\ At(s, i + 1) \in NonZeroDigits /\ follows(2) THEN 2
        ELSE IF At(s, i) \in NonZeroDigits /\ follows(1) THEN 1
        ELSE 0

\* %d is 3[0-1]|[1-2]\d|0[1-9]|[1-9]| [1-9]; it ends the pattern, so the first
\* alternative that matches is taken.
MatchDay(s, i) ==
    IF At(s, i) = "3" /\ At(s, i + 1) \in {"0","1"} THEN 2
    ELSE IF At(s, i) \in {"1","2"} /\ At(s, i + 1) \in Digits THEN 2
    ELSE IF At(s, i) = "0" /\ At(s, i + 1) \in NonZeroDigits THEN 2
    ELSE IF At(s, i) \in NonZeroDigits THEN 1
    ELSE IF At(s, i) = " " /\ At(s, i + 1) \in NonZeroDigits THEN 2
    ELSE 0

IsLeap(y) == (y % 4 = 0) /\ ((y % 100 # 0) \/ (y % 400 = 0))

DaysInMonth(y, m) ==
    IF m = 2 THEN (IF IsLeap(y) THEN 29 ELSE 28)
    ELSE IF m \in {4, 6, 9, 11} THEN 30 ELSE 31

\* datetime.strptime(s, "%Y-%m-%d"): [ok |-> FALSE] stands for ValueError
\* (no match, unconverted data remaining, or a date that does not exist).
strptime(s) ==
    LET fail == [ok |-> FALSE, year |-> 0, month |-> 0, day |-> 0]
        ny == MatchYear(s, 1)
        nm == MatchMonth(s, 6)
        dstart == 6 + nm + 1
        nd == MatchDay(s, dstart)
        dayDigits == IF nd = 2 /\ At(s, dstart) = " " THEN 1 ELSE nd
        dayFrom == dstart + nd - dayDigits
    IN  IF ny = 0 \/ At(s, 5) # "-" THEN fail
        ELSE IF nm = 0 THEN fail
        ELSE IF nd = 0 THEN fail
        ELSE IF dstart + nd - 1 # Len(s) THEN fail
        ELSE LET y == NumVal(s, 1, 4)
                 m == NumVal(s, 6, nm)
                 d == NumVal(s, dayFrom, dayDigits)
             IN  IF y < 1 \/ d > DaysInMonth(y, m) THEN fail
                 ELSE [ok |-> TRUE, year |-> y, month |-> m, day |-> d]

\* ------------------------------------------------------------ filesystem
\* Names that can appear directly under base_dir, and under a device directory.
Devices == {Str_devA, Str_devB}
DateNames == {Str_2024_01_01, Str_2024_02_29, Str_2023_02_29, Str_2024_1_5,
              Str_not_a_date}
Cells == Devices \X DateNames

\* What base_dir/<device>/<name> is: nothing, a regular file, a directory, or a
\* directory that holds sed-summary/result.json.
CellKinds == {"absent", "file", "dir", "dir_with_result"}
DevKinds == {"absent", "file", "dir"}

\* A directory tree: whether base_dir exists, what each base_dir/<device> is,
\* and what each base_dir/<device>/<name> is.
MkTree(root, dev, cell) == [root |-> root, dev |-> dev, cell |-> cell]

NoTree == MkTree(FALSE, [d \in Devices |-> "absent"], [c \in Cells |-> "absent"])

\* The tree whose entries are the cells of S with the kinds k, every device that
\* holds an entry being a directory and the others as dk says.
TreeOf(S, k, dk) ==
    MkTree(TRUE,
           [d \in Devices |-> IF \E c \in S : c[1] = d THEN "dir" ELSE dk[d]],
           [c \in Cells |-> IF c \in S THEN k[c] ELSE "absent"])

\* t is a tree with at most n entries, placed in cells and of the kinds in
\* kinds (or base_dir is missing altogether).
IsTree(t, n, cells, kinds, devKinds) ==
    \/ t = NoTree
    \/ \E S \in SUBSET cells :
         /\ Cardinality(S) <= n
         /\ \E k \in [S -> kinds], dk \in [Devices -> devKinds] :
              t = TreeOf(S, k, dk)

\* Path.exists / Path.is_dir / Path.iterdir on the tree t.
base_dir_exists(t) == t.root
device_is_dir(t, d) == t.root /\ t.dev[d] = "dir"
base_dir_iterdir(t) == {d \in Devices : t.root /\ t.dev[d] # "absent"}
device_iterdir(t, d) == {n \in DateNames : device_is_dir(t, d) /\ t.cell[<<d, n>>] # "absent"}
date_is_dir(t, d, n) ==
    device_is_dir(t, d) /\ t.cell[<<d, n>>] \in {"dir", "dir_with_result"}
\* (base_dir / device_id / date / "sed-summary" / "result.json").exists()
summary_file_exists(t, d, n) ==
    /\ d \in Devices /\ n \in DateNames
    /\ device_is_dir(t, d) /\ t.cell[<<d, n>>] = "dir_with_result"

file_path(d, n) == <<d, n, "sed-summary", "result.json">>
Triple(d, n) == [device_id |-> d, date |-> n, file_path |-> file_path(d, n)]

\* The date-format check of discovery: try strptime, except ValueError: continue.
DateDirAccepted(n) == strptime(n).ok

\* The triples find_all_summary_files appends, as a set.
FoundSet(t) ==
    IF ~base_dir_exists(t) THEN {}
    ELSE { Triple(d, n) : <<d, n>> \in
             { c \in Cells :
                 /\ c[1] \in base_dir_iterdir(t) /\ device_is_dir(t, c[1])
                 /\ c[2] \in device_iterdir(t, c[1]) /\ date_is_dir(t, c[1], c[2])
                 /\ DateDirAccepted(c[2])
                 /\ summary_file_exists(t, c[1], c[2]) } }

\* The lists the nested loops can build from the set F: each triple once, the
\* triples of one device contiguous (the date loop is inside the device loop),
\* in any enumeration order iterdir may produce.
Listings(F) ==
    LET n == Cardinality(F)
    IN  { s \in [1..n -> F] :
            /\ \A i, j \in 1..n : i # j => s[i] # s[j]
            /\ \A i, j, l \in 1..n :
                 (i < j /\ j < l /\ s[i].device_id = s[l].device_id)
                     => s[j].device_id = s[i].device_id }

find_all_summary_files(t) == Listings(FoundSet(t))

find_summary_file_unchecked(t, d, n) == Some(file_path(d, n))
\* find_summary_file: the path when it exists, else None.
find_summary_file(t, d, n) ==
    IF summary_file_exists(t, d, n) THEN Some(file_path(d, n)) ELSE None

\* ------------------------------------------------------------ exceptions
\* The classes of each exception the upload coroutine can meet (its MRO).
Bases(e) ==
    CASE e = "FileNotFoundError"    -> {"FileNotFoundError", "OSError", "Exception"}
      [] e = "UnicodeDecodeError"   -> {"UnicodeDecodeError", "ValueError", "Exception"}
      [] e = "ClientConnectorError" -> {"ClientConnectorError", "ClientError", "OSError", "Exception"}
      [] e = "ClientPayloadError"   -> {"ClientPayloadError", "ClientError", "Exception"}
      [] e = "TimeoutError"         -> {"TimeoutError", "Exception"}
      [] e = "RuntimeError"         -> {"RuntimeError", "Exception"}

\* open()/read() of the file, the POST, and response.text() can raise these.
ReadErrors == {"FileNotFoundError", "UnicodeDecodeError"}
PostErrors == {"ClientConnectorError", "TimeoutError"}
TextErrors == {"ClientPayloadError"}

\* Statuses and bodies a server may answer with.
Statuses == {HTTP_OK, 201, 404}
Bodies == {"", "ok"}

ExceptClausesNoBroad == <<"ClientError", "JSONDecodeError", "FileNotFoundError">>
\* The except clauses of upload_summary_file, in order; each returns False.
ExceptClauses == <<"ClientError", "JSONDecodeError", "FileNotFoundError", "Exception">>

\* The clause that catches e: the first whose class e is an instance of
\* ("uncaught" when none is, and the exception leaves the coroutine).
CaughtBy(e) ==
    LET hits == {i \in 1..Len(ExceptClauses) : ExceptClauses[i] \in Bases(e)}
    IN  IF hits = {} THEN "uncaught"
        ELSE ExceptClauses[CHOOSE i \in hits : \A j \in hits : i <= j]

IsSuccessStatus2xx(status) == status \div 100 = 2
\* response.status == 200
IsSuccessStatus(status) == status = HTTP_OK

\* ------------------------------------------------------------------ state
VARIABLES
    entry,            \* how the program was entered: "main", "run", "find_all"
    args,             \* [device_id, date]: Optional[str] each
    fs,               \* the directory tree under base_dir
    pc,               \* where the orchestrating code is
    summary_files,    \* the list discovery returned
    tasks,            \* the upload coroutines, in creation order
    awaiting,         \* index of the coroutine the orchestrator awaits (0: none)
    session,          \* "none", "open", "closed": the aiohttp.ClientSession
    sessions_created, \* how many ClientSession objects were constructed
    success_count,
    failed_count,
    result,           \* what run returned (NoResult until then)
    printed,          \* the error main printed ("" when none)
    fs_accessed       \* whether any filesystem call was made

vars == <<entry, args, fs, pc, summary_files, tasks, awaiting, session,
          sessions_created, success_count, failed_count, result, printed,
          fs_accessed>>

NoResult == [success |-> -1, failed |-> -1, total |-> -1]
MkResult(s, f, t) == [success |-> s, failed |-> f, total |-> t]

DeviceArgs == {None, Some(Str_empty), Some(Str_devA)}
DateArgs == {None, Some(Str_empty), Some(Str_2024_01_01), Some(Str_2024_1_5),
             Some(Str_not_a_date)}

\* A coroutine object upload_summary_file(session, device_id, date, file_path)
\* as first created: its body has not begun to run.
NewTask(d, n, path) ==
    [device_id |-> d, date |-> n, file_path |-> path,
     st |-> "created",   \* created, posting, reading_body, returned, raised
     status |-> 0,       \* the response's status (0: no response)
     body |-> "",        \* the response's body while the response is held
     exc |-> "none",     \* the exception raised inside the coroutine
     clause |-> "none",  \* the except clause that logged it
     ret |-> FALSE,      \* the value returned
     posts |-> 0,        \* POST requests issued
     starts |-> 0]       \* times the body began to run

InitCommon ==
    /\ summary_files = <<>>
    /\ tasks = <<>>
    /\ awaiting = 0
    /\ session = "none"
    /\ sessions_created = 0
    /\ success_count = 0
    /\ failed_count = 0
    /\ result = NoResult
    /\ printed = ""
    /\ fs_accessed = FALSE

\* The trees of a run without arguments hold result.json files under these names.
BatchNames == {Str_2024_01_01, Str_2024_02_29, Str_not_a_date}

\* The program is started from the command line (main), by a call of run, or
\* by a call of find_all_summary_files, over some tree.
Init ==
    /\ InitCommon
    /\ \/ /\ entry = "main"
          /\ args = [device_id |-> None, date |-> None]
          /\ IsTree(fs, MaxEntries, Devices \X BatchNames, {"dir_with_result"}, {"absent"})
          /\ pc = entry
       \/ /\ entry \in {"main", "run"}
          /\ args \in {a \in [device_id : DeviceArgs, date : DateArgs] :
                         a.device_id.some \/ a.date.some}
          /\ IsTree(fs, MaxEntriesArgs, Cells, {"dir_with_result"}, {"absent"})
          /\ pc = entry
       \/ /\ entry = "find_all"
          /\ args = [device_id |-> None, date |-> None]
          /\ IsTree(fs, MaxEntries, Cells, CellKinds \ {"absent"}, DevKinds)
          /\ pc = "find_all"

\* ------------------------------------------------------------------ main
\* main(), the argument checks: print an error and return, or go on to
\* construct the uploader and call run.
MainValidate ==
    /\ pc = "main"
    /\ LET dev == args.device_id
           date == args.date
       IN  IF (Truthy(dev) /\ ~Truthy(date)) \/ (~Truthy(dev) /\ Truthy(date))
           THEN /\ printed' = "pair_error"
                /\ pc' = "exit"
           ELSE IF Truthy(date) /\ ~strptime(date.val).ok
           THEN /\ printed' = "date_error"
                /\ pc' = "exit"
           ELSE /\ printed' = printed
                /\ pc' = "run"
    /\ UNCHANGED <<entry, args, fs, summary_files, tasks, awaiting, session,
                   sessions_created, success_count, failed_count, result,
                   fs_accessed>>

\* run(): "if device_id and date" selects the single file, else everything.
RunSelectsSpecific(dev, date) == Truthy(dev) /\ Truthy(date)

Run ==
    /\ pc = "run"
    /\ pc' = IF RunSelectsSpecific(args.device_id, args.date)
             THEN "specific" ELSE "all"
    /\ UNCHANGED <<entry, args, fs, summary_files, tasks, awaiting, session,
                   sessions_created, success_count, failed_count, result,
                   printed, fs_accessed>>

\* ---------------------------------------------------- upload_all_summaries
UploadAllDiscoverSessionFirst ==
    /\ pc = "all"
    /\ fs_accessed' = TRUE
    /\ session' = "open"
    /\ sessions_created' = sessions_created + 1
    /\ summary_files' \in find_all_summary_files(fs)
    /\ IF Len(summary_files') = 0
       THEN /\ result' = MkResult(0, 0, 0)
            /\ pc' = "returned"
       ELSE /\ result' = result
            /\ pc' = "all_session"
    /\ UNCHANGED <<entry, args, fs, tasks, awaiting, success_count,
                   failed_count, printed>>
\* Discovery, and the early return when it found nothing.
UploadAllDiscover ==
    /\ pc = "all"
    /\ fs_accessed' = TRUE
    /\ summary_files' \in find_all_summary_files(fs)
    /\ IF Len(summary_files') = 0
       THEN /\ result' = MkResult(0, 0, 0)
            /\ pc' = "returned"
       ELSE /\ result' = result
            /\ pc' = "all_session"
    /\ UNCHANGED <<entry, args, fs, tasks, awaiting, session, sessions_created,
                   success_count, failed_count, printed>>

\* The connector and the session are made and the session entered; then one
\* coroutine object per triple is created, none of them started.
UploadAllOpenSession ==
    /\ pc = "all_session"
    /\ session' = "open"
    /\ sessions_created' = sessions_created + 1
    /\ tasks' = [i \in 1..Len(summary_files) |->
                   NewTask(summary_files[i].device_id, summary_files[i].date,
                           summary_files[i].file_path)]
    /\ pc' = "all_collect"
    /\ UNCHANGED <<entry, args, fs, summary_files, awaiting, success_count,
                   failed_count, result, printed, fs_accessed>>

\* "success = await task" for the next task of the list.
UploadAllAwait ==
    /\ pc = "all_collect"
    /\ success_count + failed_count < Len(tasks)
    /\ awaiting' = success_count + failed_count + 1
    /\ pc' = "all_wait"
    /\ UNCHANGED <<entry, args, fs, summary_files, tasks, session,
                   sessions_created, success_count, failed_count, result,
                   printed, fs_accessed>>

\* The awaited coroutine has finished: count its outcome, or, if it raised,
\* leave the session block with the exception.
UploadAllCollect ==
    /\ pc = "all_wait"
    /\ awaiting \in 1..Len(tasks)
    /\ tasks[awaiting].st \in {"returned", "raised"}
    /\ awaiting' = 0
    /\ IF tasks[awaiting].st = "raised"
       THEN /\ session' = "closed"
            /\ pc' = "raised"
            /\ UNCHANGED <<success_count, failed_count>>
       ELSE /\ session' = session
            /\ pc' = "all_collect"
            /\ IF tasks[awaiting].ret
               THEN /\ success_count' = success_count + 1
                    /\ failed_count' = failed_count
               ELSE /\ success_count' = success_count
                    /\ failed_count' = failed_count + 1
    /\ UNCHANGED <<entry, args, fs, summary_files, tasks, sessions_created,
                   result, printed, fs_accessed>>

\* Every task was awaited: the "async with" block ends and closes the session.
UploadAllCloseSession ==
    /\ pc = "all_collect"
    /\ success_count + failed_count = Len(tasks)
    /\ session' = "closed"
    /\ pc' = "all_return"
    /\ UNCHANGED <<entry, args, fs, summary_files, tasks, awaiting,
                   sessions_created, success_count, failed_count, result,
                   printed, fs_accessed>>

UploadAllTotalSuccessOnly == success_count
\* "total": len(summary_files)
UploadAllTotal == Len(summary_files)

UploadAllReturn ==
    /\ pc = "all_return"
    /\ result' = MkResult(success_count, failed_count, UploadAllTotal)
    /\ pc' = "returned"
    /\ UNCHANGED <<entry, args, fs, summary_files, tasks, awaiting, session,
                   sessions_created, success_count, failed_count, printed,
                   fs_accessed>>

\* ------------------------------------------------- upload_specific_summary
\* find_summary_file; when the file is missing the coroutine returns False and
\* run returns {success 0, failed 1, total 1}.
UploadSpecificFind ==
    /\ pc = "specific"
    /\ fs_accessed' = TRUE
    /\ LET path == find_summary_file(fs, args.device_id.val, args.date.val)
       IN  IF ~path.some
           THEN /\ result' = MkResult(0, 1, 1)
                /\ pc' = "returned"
           ELSE /\ result' = result
                /\ pc' = "specific_session"
    /\ UNCHANGED <<entry, args, fs, summary_files, tasks, awaiting, session,
                   sessions_created, success_count, failed_count, printed>>

\* The session is made and entered and upload_summary_file awaited at once.
UploadSpecificOpenSession ==
    /\ pc = "specific_session"
    /\ session' = "open"
    /\ sessions_created' = sessions_created + 1
    /\ tasks' = <<NewTask(args.device_id.val, args.date.val,
                          file_path(args.device_id.val, args.date.val))>>
    /\ awaiting' = 1
    /\ pc' = "specific_wait"
    /\ UNCHANGED <<entry, args, fs, summary_files, success_count,
                   failed_count, result, printed, fs_accessed>>

\* The upload finished: the session closes and run builds its result.
UploadSpecificReturn ==
    /\ pc = "specific_wait"
    /\ tasks[1].st \in {"returned", "raised"}
    /\ session' = "closed"
    /\ awaiting' = 0
    /\ IF tasks[1].st = "raised"
       THEN /\ pc' = "raised"
            /\ result' = result
       ELSE /\ pc' = "returned"
            /\ result' = IF tasks[1].ret THEN MkResult(1, 0, 1)
                         ELSE MkResult(0, 1, 1)
    /\ UNCHANGED <<entry, args, fs, summary_files, tasks, sessions_created,
                   success_count, failed_count, printed, fs_accessed>>

\* ------------------------------------------------------ upload_summary_file
\* A coroutine object runs only while something awaits it: the orchestrator
\* awaits the coroutines one at a time, so only the awaited one makes steps.
Driven(k) == awaiting = k

\* The coroutine leaves through "return": the response (if any) is released.
Returned(t, value, clause, e) ==
    [t EXCEPT !.st = "returned", !.ret = value, !.clause = clause, !.exc = e,
              !.body = ""]

RaisedRetry(t, e) ==
    IF t.starts < 2 THEN [t EXCEPT !.st = "created", !.exc = e, !.body = ""]
    ELSE [t EXCEPT !.st = "returned", !.ret = FALSE, !.exc = e, !.body = ""]
\* An exception e inside the try block: the matching clause logs it and
\* returns False; with no matching clause it leaves the coroutine.
Raised(t, e) ==
    IF CaughtBy(e) = "uncaught"
    THEN [t EXCEPT !.st = "raised", !.exc = e, !.body = ""]
    ELSE Returned(t, FALSE, CaughtBy(e), e)

\* The body starts: the file is read, the form built, and the POST issued on
\* the session (a closed session refuses it with RuntimeError).
UploadBegin(k) ==
    /\ k \in 1..Len(tasks)
    /\ tasks[k].st = "created"
    /\ Driven(k)
    /\ \E r \in {"ok"} \cup ReadErrors :
         LET t == [tasks[k] EXCEPT !.starts = @ + 1]
         IN  tasks' = [tasks EXCEPT ![k] =
                 IF r # "ok" THEN Raised(t, r)
                 ELSE IF session # "open" THEN Raised(t, "RuntimeError")
                 ELSE [t EXCEPT !.st = "posting", !.posts = @ + 1]]
    /\ fs_accessed' = TRUE
    /\ UNCHANGED <<entry, args, fs, pc, summary_files, awaiting, session,
                   sessions_created, success_count, failed_count, result,
                   printed>>

\* The POST ends: with a response, by a transport error, or by the 60 s
\* total timeout.  Status 200 returns True; any other status goes on to read
\* the body for the log.
UploadPostDone(k) ==
    /\ k \in 1..Len(tasks)
    /\ tasks[k].st = "posting"
    /\ Driven(k)
    /\ \/ \E status \in Statuses, body \in Bodies :
            LET t == [tasks[k] EXCEPT !.status = status, !.body = body]
            IN  tasks' = [tasks EXCEPT ![k] =
                    IF IsSuccessStatus(status)
                    THEN Returned(t, TRUE, "none", "none")
                    ELSE [t EXCEPT !.st = "reading_body"]]
       \/ \E e \in PostErrors :
            tasks' = [tasks EXCEPT ![k] = Raised(tasks[k], e)]
    /\ UNCHANGED <<entry, args, fs, pc, summary_files, awaiting, session,
                   sessions_created, success_count, failed_count, result,
                   printed, fs_accessed>>

\* "error_text = await response.text()", the error log line, return False.
UploadTextDone(k) ==
    /\ k \in 1..Len(tasks)
    /\ tasks[k].st = "reading_body"
    /\ Driven(k)
    /\ \E r \in {"ok"} \cup TextErrors :
         tasks' = [tasks EXCEPT ![k] =
             IF r = "ok" THEN Returned(tasks[k], FALSE, "http_status", "none")
             ELSE Raised(tasks[k], r)]
    /\ UNCHANGED <<entry, args, fs, pc, summary_files, awaiting, session,
                   sessions_created, success_count, failed_count, result,
                   printed, fs_accessed>>

\* ------------------------------------------------- find_all_summary_files
\* A direct call of the discovery method.
FindAllCall ==
    /\ pc = "find_all"
    /\ fs_accessed' = TRUE
    /\ summary_files' \in find_all_summary_files(fs)
    /\ pc' = "returned"
    /\ UNCHANGED <<entry, args, fs, tasks, awaiting, session, sessions_created,
                   success_count, failed_count, result, printed>>

\* ------------------------------------------------------------------ spec
Next ==
    \/ MainValidate
    \/ Run
    \/ UploadAllDiscover
    \/ UploadAllOpenSession
    \/ UploadAllAwait
    \/ UploadAllCollect
    \/ UploadAllCloseSession
    \/ UploadAllReturn
    \/ UploadSpecificFind
    \/ UploadSpecificOpenSession
    \/ UploadSpecificReturn
    \/ \E k \in 1..Len(tasks) : UploadBegin(k)
    \/ \E k \in 1..Len(tasks) : UploadPostDone(k)
    \/ \E k \in 1..Len(tasks) : UploadTextDone(k)
    \/ FindAllCall

Spec == Init /\ [][Next]_vars

\* ================================================================ claims
Given(o) == o.some /\ o.val # <<>>
ViaRun == entry \in {"main", "run"}
NeitherGiven == ~Given(args.device_id) /\ ~Given(args.date)
BothGiven == Given(args.device_id) /\ Given(args.date)
ExactlyOneGiven == Given(args.device_id) # Given(args.date)
BatchRun == ViaRun /\ NeitherGiven

\* A name of the form YYYY-MM-DD (four, two and two digits) that is a date of
\* the calendar.
IsValidYMD(s) ==
    /\ Len(s) = 10
    /\ s[5] = "-" /\ s[8] = "-"
    /\ \A i \in {1, 2, 3, 4, 6, 7, 9, 10} : s[i] \in Digits
    /\ LET y == NumVal(s, 1, 4)
           m == NumVal(s, 6, 2)
           d == NumVal(s, 9, 2)
       IN  /\ y >= 1
           /\ m \in 1..12
           /\ d \in 1..DaysInMonth(y, m)

\* The triples the directory tree holds: device directory, date directory with
\* a valid name, result.json present.
ExpectedTriples(t) ==
    { Triple(c[1], c[2]) : c \in
        { c \in Cells : /\ t.root
                        /\ t.dev[c[1]] = "dir"
                        /\ t.cell[c] = "dir_with_result"
                        /\ IsValidYMD(c[2]) } }

\* How many triples discovery finds in the tree t.
AcceptedNames == {n \in DateNames : strptime(n).ok}
NumDiscovered(t) ==
    Cardinality({c \in Cells : /\ t.root
                               /\ t.dev[c[1]] = "dir"
                               /\ t.cell[c] = "dir_with_result"
                               /\ c[2] \in AcceptedNames})

TaskIds == 1..Len(tasks)
InFlight(k) == tasks[k].st \in {"posting", "reading_body"}
NumReturned(b) ==
    Cardinality({k \in TaskIds : tasks[k].st = "returned" /\ tasks[k].ret = b})

\* C1: in a batch run over N >= 2 triples all uploads are started before the
\* orchestrator waits for the first outcome: whenever the first upload is in
\* flight, every other upload has been started too.
C1_AllStartedBeforeFirstWait ==
    (BatchRun /\ Len(tasks) >= 2 /\ InFlight(1))
        => \A k \in TaskIds : tasks[k].st # "created"

\* C2: when a batch run over N discovered triples has returned, total = N,
\* success + failed = N, and success is the number of uploads that gave True.
C2_BatchCounts ==
    (BatchRun /\ pc = "returned")
        => LET N == NumDiscovered(fs)
           IN  /\ Len(summary_files) = N
               /\ result.total = N
               /\ result.success + result.failed = N
               /\ result.success = NumReturned(TRUE)

C2_Witness ==
    /\ BatchRun /\ pc = "returned"
    /\ result.total = 3 /\ result.success >= 1 /\ result.failed >= 1

\* C3: run performs a batch run only when neither argument is given: called
\* with exactly one of them it uploads nothing that discovery found.
C3_PartialArgsUploadNothing ==
    (entry = "run" /\ ExactlyOneGiven)
        => /\ \A k \in TaskIds : tasks[k].posts = 0
           /\ result.total <= 0

\* C4: in a batch run no upload failure aborts the batch: no upload coroutine
\* raises, the run never ends in an exception, and when it has returned every
\* discovered triple was attempted and counted in the result.
C4_FailureNeverAborts ==
    BatchRun =>
        /\ pc # "raised"
        /\ \A k \in TaskIds : tasks[k].st # "raised"
        /\ pc = "returned" =>
              /\ Len(tasks) = NumDiscovered(fs)
              /\ \A k \in TaskIds : tasks[k].st = "returned" /\ tasks[k].starts = 1
              /\ result = MkResult(NumReturned(TRUE), NumReturned(FALSE), Len(tasks))

C4_Witness ==
    /\ BatchRun /\ pc = "returned"
    /\ Len(tasks) = 3
    /\ tasks[1].exc = "TimeoutError"
    /\ tasks[2].ret /\ tasks[3].ret
    /\ result = MkResult(2, 1, 3)

\* C5: a command line with exactly one of --device-id / --date, or with a
\* --date that is not a valid YYYY-MM-DD date, prints an error and returns
\* before any filesystem access and before any session or request.
OptionsInError ==
    \/ args.device_id.some # args.date.some
    \/ args.date.some /\ ~IsValidYMD(args.date.val)

C5_ConfigErrorBeforeIO ==
    (entry = "main" /\ OptionsInError)
        => /\ pc = "exit" => printed # ""
           /\ ~fs_accessed
           /\ sessions_created = 0
           /\ \A k \in TaskIds : tasks[k].posts = 0

\* C6: a single-file run whose file does not exist returns success 0, failed 1,
\* total 1 without raising, opens no session and issues no POST.
TargetExists ==
    /\ args.device_id.val \in Devices /\ args.date.val \in DateNames
    /\ fs.root
    /\ fs.dev[args.device_id.val] = "dir"
    /\ fs.cell[<<args.device_id.val, args.date.val>>] = "dir_with_result"

C6_MissingFileResult ==
    (ViaRun /\ BothGiven /\ ~TargetExists)
        => /\ pc # "raised"
           /\ session = "none" /\ sessions_created = 0
           /\ tasks = <<>>
           /\ pc = "returned" => result = MkResult(0, 1, 1)

C6_Witness ==
    /\ ViaRun /\ BothGiven /\ ~TargetExists
    /\ pc = "returned" /\ result = MkResult(0, 1, 1)

\* C7: an upload whose POST got a response succeeds exactly when the status is
\* 200, and the run result counts it so.
C7_SuccessIff200 ==
    /\ \A k \in TaskIds :
         (tasks[k].st = "returned" /\ tasks[k].status # 0)
             => (tasks[k].ret <=> tasks[k].status = 200)
    /\ (ViaRun /\ pc = "returned")
         => /\ result.success = Cardinality({k \in TaskIds : tasks[k].status = 200})
            /\ result.failed >=
                 Cardinality({k \in TaskIds : tasks[k].status \notin {0, 200}})

C7_Witness ==
    /\ ViaRun /\ pc = "returned"
    /\ \E k \in TaskIds : tasks[k].status = 201 /\ ~tasks[k].ret
    /\ \E k \in TaskIds : tasks[k].status = 200 /\ tasks[k].ret
    /\ result = MkResult(1, 1, 2)

\* C8: bulk discovery returns exactly the triples whose device and date entries
\* are directories, whose date name is a valid YYYY-MM-DD date and whose
\* result.json exists (none when base_dir is missing), each once.
C8_DiscoveryExact ==
    (entry = "find_all" /\ pc = "returned")
        => /\ {summary_files[i] : i \in 1..Len(summary_files)} = ExpectedTriples(fs)
           /\ Len(summary_files) = Cardinality(ExpectedTriples(fs))

\* C9: nothing is retried: every upload body runs at most once and issues at
\* most one POST, the uploads are for distinct triples, and when the run has
\* returned each of them ran exactly once.
C9_NoRetry ==
    ViaRun =>
        /\ \A k \in TaskIds : tasks[k].starts <= 1 /\ tasks[k].posts <= 1
        /\ \A j, k \in TaskIds :
             (tasks[j].device_id = tasks[k].device_id /\ tasks[j].date = tasks[k].date)
                 => j = k
        /\ pc = "returned" =>
              /\ \A k \in TaskIds : tasks[k].starts = 1
              /\ summary_files # <<>> =>
                    /\ Len(tasks) = Len(summary_files)
                    /\ \A k \in TaskIds :
                         /\ tasks[k].device_id = summary_files[k].device_id
                         /\ tasks[k].date = summary_files[k].date

C9_Witness ==
    /\ ViaRun /\ pc = "returned"
    /\ Len(tasks) = 3
    /\ tasks[1].posts = 1 /\ tasks[1].exc = "ClientConnectorError"
    /\ tasks[2].posts = 1 /\ tasks[2].status = 404
    /\ tasks[3].posts = 0 /\ tasks[3].exc = "FileNotFoundError"

\* C10: in a batch run every POST is issued after discovery has finished and
\* while the run's one session is open; one session is created when a triple
\* was found and none otherwise; the session is closed when run returns.
C10_PostsInsideSession ==
    BatchRun =>
        /\ sessions_created <= 1
        /\ \A k \in TaskIds : InFlight(k) => session = "open"
        /\ (\E k \in TaskIds : tasks[k].posts > 0) =>
              /\ sessions_created = 1
              /\ session # "none"
              /\ fs_accessed
              /\ Len(summary_files) = NumDiscovered(fs)
        /\ pc = "returned" =>
              IF NumDiscovered(fs) > 0
              THEN sessions_created = 1 /\ session = "closed"
              ELSE sessions_created = 0 /\ session = "none"

C10_Witness ==
    /\ BatchRun /\ pc = "returned"
    /\ Len(tasks) >= 2
    /\ \A k \in TaskIds : tasks[k].posts = 1
    /\ session = "closed" /\ sessions_created = 1

\* ------------------------------------------------------- supporting facts
\* main does return before any I/O when exactly one option is non-empty or
\* the non-empty --date is one strptime rejects.
MainRejectsBeforeIO ==
    (entry = "main"
       /\ (ExactlyOneGiven \/ (Given(args.date) /\ ~strptime(args.date.val).ok)))
        => /\ pc \in {"main", "exit"}
           /\ pc = "exit" => printed # ""
           /\ ~fs_accessed /\ sessions_created = 0 /\ tasks = <<>>

\* Discovery returns exactly the triples whose name strptime accepts, which
\* include every valid YYYY-MM-DD triple.
DiscoveryIsStrptimeExact ==
    (entry = "find_all" /\ pc = "returned")
        => /\ Len(summary_files) = NumDiscovered(fs)
           /\ ExpectedTriples(fs) \subseteq {summary_files[i] : i \in 1..Len(summary_files)}
           /\ \A i \in 1..Len(summary_files) :
                /\ summary_files[i].date \in AcceptedNames
                /\ fs.cell[<<summary_files[i].device_id, summary_files[i].date>>]
                       = "dir_with_result"
           /\ ~fs.root => summary_files = <<>>

\* The uploads of a run never overlap: at most one is in flight at any time.
UploadsAreSequential ==
    \A j, k \in TaskIds : (InFlight(j) /\ InFlight(k)) => j = k

====
